---- MODULE Spec2Model ----
(***************************************************************************)
(* State-machine model of the two helpers of the repository:               *)
(*   - get_gmail_credentials and parse_and_format_datetime                 *)
(*     (src/aura/tools/google_calendar/utils.py)                           *)
(*   - LanceDBGetEntity._run (src/tools/lancedb/entity_get.py)             *)
(* Strings that the code builds or parses are sequences of code points.    *)
(***************************************************************************)
EXTENDS Integers, Sequences, FiniteSets, TLC

(***************************************************************************)
(* Bounds of the model.                                                    *)
(***************************************************************************)
\* number of concurrent callers of get_gmail_credentials on one token_file
NumProcs == 2
\* most rows a query returns
MaxRows == 2

VARIABLES
    \* ---- get_gmail_credentials -------------------------------------------
    file,        \* content of token_file on disk
    issued,      \* last access token handed out by the token endpoint
    pc,          \* per caller: position in get_gmail_credentials
    args,        \* per caller: use_domain_wide, delegated_user
    creds,       \* per caller: the local variable creds / credentials
    result,      \* per caller: the returned credential
    exc,         \* per caller: the exception that left the function
    refreshes,   \* per caller: creds.refresh calls in the current invocation
    flows,       \* per caller: interactive flows started in the current invocation
    reads,       \* per caller: accesses to token_file (exists / load) in the invocation
    writes,      \* per caller: open-for-write and write operations in the invocation
    loaded,      \* per caller: the credential as loaded from token_file
    found,       \* per caller: what os.path.exists(token_file) answered
    written,     \* per caller: the content the invocation wrote to token_file
    lastWriter   \* caller whose write reached token_file last (0: none)

credVars == <<file, issued, pc, args, creds, result, exc, refreshes, flows,
              reads, writes, loaded, found, written, lastWriter>>

Procs == 1 .. NumProcs

(***************************************************************************)
(* Credentials and the token file.                                         *)
(***************************************************************************)
\* token 0 stands for None; expiry is relative to the time of the call
Expiries == {"none", "past", "future"}

NoCreds == [kind |-> "none", token |-> 0, refresh_token |-> FALSE,
            expiry |-> "none", subject |-> "none"]

UserCreds(t, r, e) == [kind |-> "user", token |-> t, refresh_token |-> r,
                       expiry |-> e, subject |-> "none"]

ServiceCreds == [kind |-> "service", token |-> 0, refresh_token |-> FALSE,
                 expiry |-> "none", subject |-> "none"]

\* credentials.with_subject(delegated_user)
with_subject(c, user) == [c EXCEPT !.subject = user]

\* creds.expired
expired(c) == c.expiry = "past"

\* creds.valid
valid(c) == c.token # 0 /\ ~expired(c)

\* the file on disk: absent, present but empty (opened for writing, nothing written
\* yet, or not a token document), or a serialized credential
FileAbsent == [st |-> "absent", token |-> 0, refresh_token |-> FALSE, expiry |-> "none"]
FileEmpty  == [st |-> "empty", token |-> 0, refresh_token |-> FALSE, expiry |-> "none"]

\* creds.to_json()
to_json(c) == [st |-> "json", token |-> c.token, refresh_token |-> c.refresh_token,
               expiry |-> c.expiry]

\* Credentials.from_authorized_user_file(token_file, scopes), for a readable document
from_authorized_user_file(f) == UserCreds(f.token, f.refresh_token, f.expiry)

\* os.path.exists(token_file)
exists(f) == f.st # "absent"

\* truthiness of the Optional[str] delegated_user: None and "" are falsy
DelegatedUsers == {"None", "", "user@example.com"}
Truthy(s) == s \notin {"None", ""}

\* what token_file may hold before the first call: nothing, no token document, a
\* document without access token (and so without expiry), or a document with one
InitialFiles ==
    {FileAbsent, FileEmpty}
        \cup {to_json(UserCreds(0, r, "none")) : r \in BOOLEAN}
        \cup {to_json(UserCreds(1, r, e)) : r \in BOOLEAN, e \in Expiries}

CredInit ==
    /\ file \in InitialFiles
    /\ issued = 1
    /\ pc = [p \in Procs |-> "idle"]
    /\ args = [p \in Procs |-> [use_domain_wide |-> FALSE, delegated_user |-> "None"]]
    /\ creds = [p \in Procs |-> NoCreds]
    /\ result = [p \in Procs |-> NoCreds]
    /\ exc = [p \in Procs |-> "none"]
    /\ refreshes = [p \in Procs |-> 0]
    /\ flows = [p \in Procs |-> 0]
    /\ reads = [p \in Procs |-> 0]
    /\ writes = [p \in Procs |-> 0]
    /\ loaded = [p \in Procs |-> NoCreds]
    /\ found = [p \in Procs |-> "unknown"]
    /\ written = [p \in Procs |-> FileAbsent]
    /\ lastWriter = 0

\* the function leaves with exception e
Raise(p, e) ==
    /\ pc' = [pc EXCEPT ![p] = "raised"]
    /\ exc' = [exc EXCEPT ![p] = e]

\* the function returns c
Return(p, c) ==
    /\ pc' = [pc EXCEPT ![p] = "returned"]
    /\ result' = [result EXCEPT ![p] = c]

\* entry of get_gmail_credentials: the test of use_domain_wide and the imports of the
\* branch taken (import_google, import_installed_app_flow), which may raise ImportError
Call(p) ==
    /\ pc[p] = "idle"
    /\ \E dw \in BOOLEAN, du \in DelegatedUsers :
          /\ args' = [args EXCEPT ![p] = [use_domain_wide |-> dw, delegated_user |-> du]]
          /\ \/ /\ pc' = [pc EXCEPT ![p] = IF dw THEN "service" ELSE "exists"]
                /\ UNCHANGED exc
             \/ Raise(p, "ImportError")
    /\ UNCHANGED <<file, issued, creds, result, refreshes, flows, reads, writes, loaded,
                   found, written, lastWriter>>

\* ServiceResult without the test `if delegated_user:`
ServiceResult_AlwaysSubject(du) == with_subject(ServiceCreds, du)

\* the credential the domain-wide branch returns
ServiceResult(du) == IF Truthy(du) THEN with_subject(ServiceCreds, du) ELSE ServiceCreds

\* the use_domain_wide branch
DomainWide(p) ==
    /\ pc[p] = "service"
    /\ \/ /\ Raise(p, "service_account_file")
          /\ UNCHANGED <<creds, result>>
       \/ /\ creds' = [creds EXCEPT ![p] = ServiceResult(args[p].delegated_user)]
          /\ Return(p, ServiceResult(args[p].delegated_user))
          /\ UNCHANGED exc
    /\ UNCHANGED <<file, issued, args, refreshes, flows, reads, writes, loaded, found,
                   written, lastWriter>>

\* Branch with the first test written `not creds or creds.valid`
Branch_Inverted(c) ==
    IF c.kind # "none" /\ ~valid(c) THEN "return"
    ELSE IF c.kind # "none" /\ expired(c) /\ c.refresh_token THEN "refresh"
    ELSE "flow"

\* Branch without the test of creds.expired
Branch_RefreshAny(c) ==
    IF c.kind # "none" /\ valid(c) THEN "return"
    ELSE IF c.kind # "none" /\ c.refresh_token THEN "refresh"
    ELSE "flow"

\* Branch without the refresh branch
Branch_NoRefresh(c) ==
    IF c.kind # "none" /\ valid(c) THEN "return" ELSE "flow"

\* where the function goes once creds is known: the tests `not creds or not
\* creds.valid` and `creds and creds.expired and creds.refresh_token`
Branch(c) ==
    IF c.kind # "none" /\ valid(c) THEN "return"
    ELSE IF c.kind # "none" /\ expired(c) /\ c.refresh_token THEN "refresh"
    ELSE "flow"

\* os.path.exists(token_file)
CheckExists(p) ==
    /\ pc[p] = "exists"
    /\ reads' = [reads EXCEPT ![p] = @ + 1]
    /\ found' = [found EXCEPT ![p] = IF exists(file) THEN "present" ELSE "absent"]
    /\ pc' = [pc EXCEPT ![p] = IF exists(file) THEN "load" ELSE Branch(NoCreds)]
    /\ UNCHANGED <<file, issued, args, creds, result, exc, refreshes, flows, writes,
                   loaded, written, lastWriter>>

\* Credentials.from_authorized_user_file(token_file, scopes)
Load(p) ==
    /\ pc[p] = "load"
    /\ reads' = [reads EXCEPT ![p] = @ + 1]
    /\ IF file.st = "json"
       THEN /\ creds' = [creds EXCEPT ![p] = from_authorized_user_file(file)]
            /\ loaded' = [loaded EXCEPT ![p] = from_authorized_user_file(file)]
            /\ pc' = [pc EXCEPT ![p] = Branch(from_authorized_user_file(file))]
            /\ UNCHANGED exc
       ELSE /\ Raise(p, "load")
            /\ UNCHANGED <<creds, loaded>>
    /\ UNCHANGED <<file, issued, args, result, refreshes, flows, writes, found,
                   written, lastWriter>>

\* Refresh that falls back to the interactive flow when the refresh call raises
Refresh_Fallback(p) ==
    /\ pc[p] = "refresh"
    /\ refreshes' = [refreshes EXCEPT ![p] = @ + 1]
    /\ \/ /\ creds' = [creds EXCEPT ![p] = UserCreds(issued + 1, TRUE, "future")]
          /\ issued' = issued + 1
          /\ pc' = [pc EXCEPT ![p] = "open"]
       \/ /\ pc' = [pc EXCEPT ![p] = "flow"]
          /\ UNCHANGED <<creds, issued>>
    /\ UNCHANGED <<file, args, result, exc, flows, reads, writes, loaded, found, written,
                   lastWriter>>

\* creds.refresh(Request())
Refresh(p) ==
    /\ pc[p] = "refresh"
    /\ refreshes' = [refreshes EXCEPT ![p] = @ + 1]
    /\ \/ /\ creds' = [creds EXCEPT ![p] = UserCreds(issued + 1, TRUE, "future")]
          /\ issued' = issued + 1
          /\ pc' = [pc EXCEPT ![p] = "open"]
          /\ UNCHANGED exc
       \/ /\ Raise(p, "refresh")
          /\ UNCHANGED <<creds, issued>>
    /\ UNCHANGED <<file, args, result, flows, reads, writes, loaded, found, written,
                   lastWriter>>

\* InstalledAppFlow.from_client_secrets_file(...).run_local_server(port=0)
Flow(p) ==
    /\ pc[p] = "flow"
    /\ flows' = [flows EXCEPT ![p] = @ + 1]
    /\ \/ \E r \in BOOLEAN :
            /\ creds' = [creds EXCEPT ![p] = UserCreds(issued + 1, r, "future")]
            /\ issued' = issued + 1
            /\ pc' = [pc EXCEPT ![p] = "open"]
            /\ UNCHANGED exc
       \/ /\ Raise(p, "flow")
          /\ UNCHANGED <<creds, issued>>
    /\ UNCHANGED <<file, args, result, refreshes, reads, writes, loaded, found,
                   written, lastWriter>>

\* open(token_file, "w"): the file is created or truncated
OpenWrite(p) ==
    /\ pc[p] = "open"
    /\ \/ /\ file' = FileEmpty
          /\ writes' = [writes EXCEPT ![p] = @ + 1]
          /\ pc' = [pc EXCEPT ![p] = "write"]
          /\ UNCHANGED exc
       \/ /\ Raise(p, "open")
          /\ UNCHANGED <<file, writes>>
    /\ UNCHANGED <<issued, args, creds, result, refreshes, flows, reads, loaded, found,
                   written, lastWriter>>

\* WriteToken that serializes the credential as it was loaded, before the refresh
WriteToken_Stale(p) ==
    /\ pc[p] = "write"
    /\ file' = to_json(loaded[p])
    /\ writes' = [writes EXCEPT ![p] = @ + 1]
    /\ written' = [written EXCEPT ![p] = to_json(loaded[p])]
    /\ lastWriter' = p
    /\ pc' = [pc EXCEPT ![p] = "return"]
    /\ UNCHANGED <<issued, args, creds, result, exc, refreshes, flows, reads, loaded, found>>

\* token.write(creds.to_json()) and the close of the file
WriteToken(p) ==
    /\ pc[p] = "write"
    /\ file' = to_json(creds[p])
    /\ writes' = [writes EXCEPT ![p] = @ + 1]
    /\ written' = [written EXCEPT ![p] = to_json(creds[p])]
    /\ lastWriter' = p
    /\ pc' = [pc EXCEPT ![p] = "return"]
    /\ UNCHANGED <<issued, args, creds, result, exc, refreshes, flows, reads, loaded,
                   found>>

\* return creds
ReturnCreds(p) ==
    /\ pc[p] = "return"
    /\ Return(p, creds[p])
    /\ UNCHANGED <<file, issued, args, creds, exc, refreshes, flows, reads, writes,
                   loaded, found, written, lastWriter>>


(***************************************************************************)
(* LanceDBGetEntity._run                                                   *)
(***************************************************************************)
VARIABLES
    e_pc,       \* position in _run
    e_where,    \* the local variable where_clause
    e_passed,   \* the where argument the query received
    e_results,  \* the local variable results: the rows the query returned
    e_exc,      \* the exception raised inside the try block
    e_raised,   \* the exception that left _run
    e_log,      \* the records _logger.error wrote
    e_out       \* the string _run returned

entVars == <<e_pc, e_where, e_passed, e_results, e_exc, e_raised, e_log, e_out>>

\* field names of the rows, as strings of code points
KeyId      == <<105, 100>>                          \* "id"
KeyVector  == <<118, 101, 99, 116, 111, 114>>       \* "vector"
KeyVectors == <<118, 101, 99, 116, 111, 114, 115>>  \* "vectors"
KeyUpper   == <<86, 101, 99, 116, 111, 114>>        \* "Vector"
Keys == {KeyId, KeyVector, KeyVectors, KeyUpper}

\* the values a field may hold (a vector field holds an embedding, never rendered)
Embedding == 0
FieldValues(k) ==
    IF k = KeyVector THEN {Embedding}
    ELSE IF k = KeyId THEN {7, 12}
    ELSE IF k = KeyVectors THEN {12}
    ELSE {7}

\* the rows a query may return: mappings of field names to values
Entities ==
    UNION {{e \in [S -> {Embedding, 7, 12}] : \A k \in S : e[k] \in FieldValues(k)} :
              S \in SUBSET Keys}

Rows == UNION {[1 .. n -> Entities] : n \in 0 .. MaxRows}

\* what build_where_clause(conditions) may return
WhereClauses ==
    { <<>>,
      <<105, 100, 32, 61, 32, 55>>,       \* "id = 7"
      <<115, 116, 97, 116, 117, 115, 32, 61, 32, 39, 97, 99, 116, 105, 118, 101, 39,
        32, 65, 78, 68, 32, 112, 114, 105, 111, 114, 105, 116, 121, 32, 62, 32, 51>> }
                                          \* "status = 'active' AND priority > 3"

\* exceptions of open_table, build_where_clause and the query
Exceptions == {"TableNotFound", "ValueError", "QueryError"}

\* a < b for strings: comparison by code points, a proper prefix first
RECURSIVE StrLess(_, _)
StrLess(a, b) ==
    IF b = <<>> THEN FALSE
    ELSE IF a = <<>> THEN TRUE
    ELSE IF Head(a) # Head(b) THEN Head(a) < Head(b)
    ELSE StrLess(Tail(a), Tail(b))

\* sorted(entity_dict.keys())
RECURSIVE sorted(_)
sorted(S) ==
    IF S = {} THEN <<>>
    ELSE LET m == CHOOSE k \in S : \A j \in S \ {k} : StrLess(k, j)
         IN  <<m>> \o sorted(S \ {m})

\* str(n) for an integer n >= 0
RECURSIVE str(_)
str(n) == IF n < 10 THEN <<48 + n>> ELSE str(n \div 10) \o <<48 + (n % 10)>>

\* sep.join(parts)
RECURSIVE join(_, _)
join(sep, parts) ==
    IF parts = <<>> THEN <<>>
    ELSE IF Len(parts) = 1 THEN parts[1]
    ELSE parts[1] \o sep \o join(sep, Tail(parts))

\* the comprehension without its test
KeepField_All(k) == TRUE

\* the test `if k != "vector"` of the comprehension
KeepField(k) == k # KeyVector

\* f"{k}: {entity_dict[k]}"
FormatField(entity, k) == k \o <<58, 32>> \o str(entity[k])

\* formatted_fields
formatted_fields(entity) ==
    LET ks == SelectSeq(sorted(DOMAIN entity), KeepField)
    IN  [i \in 1 .. Len(ks) |-> FormatField(entity, ks[i])]

\* formatted_entity = "{\n    " + "\n    ".join(formatted_fields) + "\n}"
formatted_entity(entity) ==
    <<123, 10, 32, 32, 32, 32>> \o join(<<10, 32, 32, 32, 32>>, formatted_fields(entity))
        \o <<10, 125>>

\* formatted_results built by inserting each block at the front
formatted_results_Reversed(results) ==
    [i \in 1 .. Len(results) |-> formatted_entity(results[Len(results) + 1 - i])]

\* formatted_results
formatted_results(results) ==
    [i \in 1 .. Len(results) |-> formatted_entity(results[i])]

\* f"Found {len(results)} entities matching {where_clause}:\n{results_str}"
Summary(results, where_clause) ==
    <<70, 111, 117, 110, 100, 32>> \o str(Len(results))
        \o <<32, 101, 110, 116, 105, 116, 105, 101, 115, 32, 109, 97, 116, 99, 104, 105,
             110, 103, 32>>
        \o where_clause \o <<58, 10>> \o join(<<10>>, formatted_results(results))

EntInit ==
    /\ e_pc = "idle"
    /\ e_where = <<>>
    /\ e_passed = <<>>
    /\ e_results = <<>>
    /\ e_exc = "none"
    /\ e_raised = "none"
    /\ e_log = <<>>
    /\ e_out = <<>>

\* an exception inside the try block: control goes to the except clause
Throw(e) ==
    /\ e_exc' = e
    /\ e_pc' = "except"

\* entry of _run
Run ==
    /\ e_pc = "idle"
    /\ e_pc' = "open"
    /\ UNCHANGED <<e_where, e_passed, e_results, e_exc, e_raised, e_log, e_out>>

\* table = self.open_table(table_name)
OpenTable ==
    /\ e_pc = "open"
    /\ \/ /\ e_pc' = "where"
          /\ UNCHANGED e_exc
       \/ Throw("TableNotFound")
    /\ UNCHANGED <<e_where, e_passed, e_results, e_raised, e_log, e_out>>

\* where_clause = build_where_clause(conditions)
BuildWhere ==
    /\ e_pc = "where"
    /\ \/ \E w \in WhereClauses :
            /\ e_where' = w
            /\ e_pc' = "query"
            /\ UNCHANGED e_exc
       \/ /\ Throw("ValueError")
          /\ UNCHANGED e_where
    /\ UNCHANGED <<e_passed, e_results, e_raised, e_log, e_out>>

\* results = table.search().where(where=where_clause, prefilter=True).to_list()
Query ==
    /\ e_pc = "query"
    /\ e_passed' = e_where
    /\ \/ \E rows \in Rows :
            /\ e_results' = rows
            /\ e_pc' = "format"
            /\ UNCHANGED e_exc
       \/ /\ Throw("QueryError")
          /\ UNCHANGED e_results
    /\ UNCHANGED <<e_where, e_raised, e_log, e_out>>

\* the loop over results and the return of the summary
FormatAndReturn ==
    /\ e_pc = "format"
    /\ e_out' = Summary(e_results, e_where)
    /\ e_pc' = "returned"
    /\ UNCHANGED <<e_where, e_passed, e_results, e_exc, e_raised, e_log>>

\* except Exception as e that answers with a message instead of raising
Except_Swallow ==
    /\ e_pc = "except"
    /\ e_log' = Append(e_log, [level |-> "error", exception |-> e_exc])
    /\ e_out' = <<70, 97, 105, 108, 101, 100>>
    /\ e_pc' = "returned"
    /\ UNCHANGED <<e_where, e_passed, e_results, e_exc, e_raised>>

\* except Exception as e: self._logger.error(...); raise
Except ==
    /\ e_pc = "except"
    /\ e_log' = Append(e_log, [level |-> "error", exception |-> e_exc])
    /\ e_raised' = e_exc
    /\ e_pc' = "raised"
    /\ UNCHANGED <<e_where, e_passed, e_results, e_exc, e_out>>

(***************************************************************************)
(* parse_and_format_datetime                                               *)
(***************************************************************************)
VARIABLES
    d_pc,        \* position in parse_and_format_datetime
    d_in,        \* the arguments start_datetime, end_datetime, timezone
    d_timezone,  \* the local variable timezone
    d_start,     \* the local variable start
    d_end,       \* the local variable end
    d_exc,       \* the exception that left the function
    d_result     \* the returned tuple

dtVars == <<d_pc, d_in, d_timezone, d_start, d_end, d_exc, d_result>>

\* start_datetime and end_datetime arguments, as strings of code points
DateStrings ==
    { <<50, 48, 50, 52, 45, 48, 49, 45, 49, 53, 84, 49, 48, 58, 48, 48, 58, 48, 48>>,
          \* "2024-01-15T10:00:00"
      <<50, 48, 50, 52, 45, 48, 49, 45, 49, 53, 84, 49, 49, 58, 48, 48, 58, 48, 48>>,
          \* "2024-01-15T11:00:00"
      <<50, 48, 50, 52, 45, 49, 45, 53, 84, 57, 58, 48, 58, 48>>,
          \* "2024-1-5T9:0:0"
      <<50, 48, 50, 52, 45, 48, 49, 45, 49, 53, 116, 49, 48, 58, 48, 48, 58, 48, 48>>,
          \* "2024-01-15t10:00:00"
      <<50, 48, 50, 52, 45, 48, 49, 45, 49, 53, 32, 49, 48, 58, 48, 48, 58, 48, 48>>,
          \* "2024-01-15 10:00:00"
      <<50, 48, 50, 51, 45, 48, 50, 45, 50, 57, 84, 49, 48, 58, 48, 48, 58, 48, 48>>,
          \* "2023-02-29T10:00:00"
      <<50, 48, 50, 52, 45, 48, 49, 45, 49, 53, 84, 50, 52, 58, 48, 48, 58, 48, 48>>,
          \* "2024-01-15T24:00:00"
      <<50, 48, 50, 52, 45, 48, 49, 45, 49, 53, 84, 49, 48, 58, 48, 48, 58, 48, 48, 90>>,
          \* "2024-01-15T10:00:00Z"
      <<>> }

\* time zones of the tz database, with their offset from UTC in minutes
ZoneOffsets == [z \in {"UTC", "Asia/Kolkata", "America/Phoenix"} |->
                   CASE z = "UTC" -> 0
                     [] z = "Asia/Kolkata" -> 330
                     [] z = "America/Phoenix" -> -420]
KnownZones == DOMAIN ZoneOffsets

\* timezone arguments: None, names of the tz database, and a name that is none
TimezoneArgs == {"None"} \cup KnownZones \cup {"Mars/Olympus"}

\* no datetime, no tzinfo
NoTz == "None"
NoDate == [ok |-> FALSE, year |-> 0, month |-> 0, day |-> 0, hour |-> 0,
           minute |-> 0, second |-> 0, tzinfo |-> NoTz]

\* str(get_local_timezone()): the name of the zone of the process
get_local_timezone == KnownZones

\* tz.gettz(name): the zone of that name, or None when there is none
gettz(name) == IF name \in KnownZones THEN name ELSE NoTz

IsDigit(c) == c \in 48 .. 57

\* the pieces of s between the characters of seps
RECURSIVE Split(_, _)
Split(s, seps) ==
    IF \A i \in 1 .. Len(s) : s[i] \notin seps THEN <<s>>
    ELSE LET i == CHOOSE j \in 1 .. Len(s) :
                      s[j] \in seps /\ \A k \in 1 .. j - 1 : s[k] \notin seps
         IN  <<SubSeq(s, 1, i - 1)>> \o Split(SubSeq(s, i + 1, Len(s)), seps)

\* the number a string of digits denotes
RECURSIVE Number(_)
Number(s) ==
    IF s = <<>> THEN 0 ELSE 10 * Number(SubSeq(s, 1, Len(s) - 1)) + (s[Len(s)] - 48)

\* a directive of one or two digits with a value in lo .. hi (%m, %d, %H, %M, %S)
FieldOk(s, lo, hi) ==
    /\ Len(s) \in 1 .. 2
    /\ \A i \in 1 .. Len(s) : IsDigit(s[i])
    /\ Number(s) \in lo .. hi

\* %d also takes a digit after a space
DayField(s) == IF Len(s) = 2 /\ s[1] = 32 THEN SubSeq(s, 2, 2) ELSE s

\* %Y: four digits
YearOk(s) == Len(s) = 4 /\ \A i \in 1 .. 4 : IsDigit(s[i])

IsLeap(y) == (y % 4 = 0 /\ y % 100 # 0) \/ y % 400 = 0

DaysInMonth(y, m) ==
    IF m = 2 THEN (IF IsLeap(y) THEN 29 ELSE 28)
    ELSE IF m \in {4, 6, 9, 11} THEN 30 ELSE 31

\* datetime.strptime(s, "%Y-%m-%dT%H:%M:%S"); ok is FALSE where it raises ValueError.
\* The directives match case-insensitively, so the separator may be T or t.
strptime(s) ==
    LET halves == Split(s, {84, 116})
        date == IF Len(halves) = 2 THEN Split(halves[1], {45}) ELSE <<>>
        time == IF Len(halves) = 2 THEN Split(halves[2], {58}) ELSE <<>>
    IN  IF /\ Len(date) = 3
           /\ Len(time) = 3
           /\ YearOk(date[1])
           /\ Number(date[1]) >= 1
           /\ FieldOk(date[2], 1, 12)
           /\ FieldOk(DayField(date[3]), 1, 31)
           /\ Number(DayField(date[3])) <= DaysInMonth(Number(date[1]), Number(date[2]))
           /\ FieldOk(time[1], 0, 23)
           /\ FieldOk(time[2], 0, 59)
           /\ FieldOk(time[3], 0, 59)
        THEN [ok |-> TRUE, year |-> Number(date[1]), month |-> Number(date[2]),
              day |-> Number(DayField(date[3])), hour |-> Number(time[1]),
              minute |-> Number(time[2]), second |-> Number(time[3]), tzinfo |-> NoTz]
        ELSE NoDate

\* dt.replace(tzinfo=tzinfo)
replace(dt, tzinfo) == [dt EXCEPT !.tzinfo = tzinfo]

\* n in at least `width` digits, padded with zeros
RECURSIVE Pad(_, _)
Pad(n, width) ==
    IF width <= 1 /\ n < 10 THEN <<48 + n>>
    ELSE Pad(n \div 10, width - 1) \o <<48 + (n % 10)>>

\* the UTC offset as isoformat prints it: +HH:MM or -HH:MM
OffsetText(minutes) ==
    LET a == IF minutes < 0 THEN -minutes ELSE minutes
    IN  <<IF minutes < 0 THEN 45 ELSE 43>> \o Pad(a \div 60, 2) \o <<58>> \o Pad(a % 60, 2)

\* dt.isoformat(): no offset is printed for a naive datetime
isoformat(dt) ==
    Pad(dt.year, 4) \o <<45>> \o Pad(dt.month, 2) \o <<45>> \o Pad(dt.day, 2) \o <<84>>
        \o Pad(dt.hour, 2) \o <<58>> \o Pad(dt.minute, 2) \o <<58>> \o Pad(dt.second, 2)
        \o (IF dt.tzinfo = NoTz THEN <<>> ELSE OffsetText(ZoneOffsets[dt.tzinfo]))

NoResult == [start |-> <<>>, end |-> <<>>, timezone |-> "None"]

DtInit ==
    /\ d_pc = "idle"
    /\ d_in = [start |-> <<>>, end |-> <<>>, timezone |-> "None"]
    /\ d_timezone = "None"
    /\ d_start = NoDate
    /\ d_end = NoDate
    /\ d_exc = "none"
    /\ d_result = NoResult

\* entry of parse_and_format_datetime, with the default of timezone
DtCall ==
    /\ d_pc = "idle"
    /\ \E s \in DateStrings, e \in DateStrings, z \in TimezoneArgs :
          /\ d_in' = [start |-> s, end |-> e, timezone |-> z]
          /\ \E local \in get_local_timezone :
                d_timezone' = IF z = "None" THEN local ELSE z
    /\ d_pc' = "parse"
    /\ UNCHANGED <<d_start, d_end, d_exc, d_result>>

\* the two calls of datetime.strptime
DtParse ==
    /\ d_pc = "parse"
    /\ IF strptime(d_in.start).ok /\ strptime(d_in.end).ok
       THEN /\ d_start' = strptime(d_in.start)
            /\ d_end' = strptime(d_in.end)
            /\ d_pc' = "attach"
            /\ UNCHANGED d_exc
       ELSE /\ d_exc' = "ValueError"
            /\ d_pc' = "raised"
            /\ UNCHANGED <<d_start, d_end>>
    /\ UNCHANGED <<d_in, d_timezone, d_result>>

\* the two calls of replace(tzinfo=tz.gettz(timezone))
DtAttach ==
    /\ d_pc = "attach"
    /\ d_start' = replace(d_start, gettz(d_timezone))
    /\ d_end' = replace(d_end, gettz(d_timezone))
    /\ d_pc' = "format"
    /\ UNCHANGED <<d_in, d_timezone, d_exc, d_result>>

\* return start.isoformat(), end.isoformat(), timezone
DtReturn ==
    /\ d_pc = "format"
    /\ d_result' = [start |-> isoformat(d_start), end |-> isoformat(d_end),
                    timezone |-> d_timezone]
    /\ d_pc' = "returned"
    /\ UNCHANGED <<d_in, d_timezone, d_start, d_end, d_exc>>

vars == <<credVars, entVars, dtVars>>

\* callers of get_gmail_credentials sharing one token file
Init == CredInit /\ EntInit /\ DtInit
Next ==
    \E p \in Procs :
        \/ Call(p) /\ UNCHANGED <<entVars, dtVars>>
        \/ DomainWide(p) /\ UNCHANGED <<entVars, dtVars>>
        \/ CheckExists(p) /\ UNCHANGED <<entVars, dtVars>>
        \/ Load(p) /\ UNCHANGED <<entVars, dtVars>>
        \/ Refresh(p) /\ UNCHANGED <<entVars, dtVars>>
        \/ Flow(p) /\ UNCHANGED <<entVars, dtVars>>
        \/ OpenWrite(p) /\ UNCHANGED <<entVars, dtVars>>
        \/ WriteToken(p) /\ UNCHANGED <<entVars, dtVars>>
        \/ ReturnCreds(p) /\ UNCHANGED <<entVars, dtVars>>
Spec == Init /\ [][Next]_vars

\* one call of LanceDBGetEntity._run; the token file plays no part
EntityInit == CredInit /\ file = FileAbsent /\ EntInit /\ DtInit
EntityNext ==
    \/ Run /\ UNCHANGED <<credVars, dtVars>>
    \/ OpenTable /\ UNCHANGED <<credVars, dtVars>>
    \/ BuildWhere /\ UNCHANGED <<credVars, dtVars>>
    \/ Query /\ UNCHANGED <<credVars, dtVars>>
    \/ FormatAndReturn /\ UNCHANGED <<credVars, dtVars>>
    \/ Except /\ UNCHANGED <<credVars, dtVars>>
SpecEntity == EntityInit /\ [][EntityNext]_vars

\* one call of parse_and_format_datetime; the token file plays no part
DatetimeInit == CredInit /\ file = FileAbsent /\ EntInit /\ DtInit
DatetimeNext ==
    \/ DtCall /\ UNCHANGED <<credVars, entVars>>
    \/ DtParse /\ UNCHANGED <<credVars, entVars>>
    \/ DtAttach /\ UNCHANGED <<credVars, entVars>>
    \/ DtReturn /\ UNCHANGED <<credVars, entVars>>
SpecDatetime == DatetimeInit /\ [][DatetimeNext]_vars

(***************************************************************************)
(* Properties of get_gmail_credentials.                                    *)
(***************************************************************************)
\* the invocation of caller p took the branch of use_domain_wide = False
UserPath(p) == pc[p] # "idle" /\ ~args[p].use_domain_wide

\* the invocation of caller p took the branch of use_domain_wide = True
ServicePath(p) == pc[p] # "idle" /\ args[p].use_domain_wide

\* caller p loaded a credential from token_file
HasLoaded(p) == found[p] = "present" /\ loaded[p].kind = "user"

\* the cached credential of p was valid
LoadedValid(p) == HasLoaded(p) /\ loaded[p].token # 0 /\ loaded[p].expiry # "past"

\* the cached credential of p was expired and held a refresh token
LoadedRefreshable(p) ==
    HasLoaded(p) /\ loaded[p].expiry = "past" /\ loaded[p].refresh_token

\* the document that holds credential c
Document(c) ==
    [st |-> "json", token |-> c.token, refresh_token |-> c.refresh_token,
     expiry |-> c.expiry]

\* C1: with use_domain_wide false and a token file that loads a valid credential,
\* the call makes no refresh call, starts no interactive flow, does not write the
\* token file, cannot fail, and returns the credential exactly as it was loaded.
C1_ValidCacheReturnedUntouched ==
    \A p \in Procs :
        (UserPath(p) /\ LoadedValid(p)) =>
            /\ refreshes[p] = 0
            /\ flows[p] = 0
            /\ writes[p] = 0
            /\ written[p] = FileAbsent
            /\ pc[p] \in {"return", "returned"}
            /\ (pc[p] = "returned" => result[p] = loaded[p])

C1_Witness ==
    \E p \in Procs : UserPath(p) /\ LoadedValid(p) /\ pc[p] = "returned"

\* C2: with use_domain_wide false and a cached credential that is invalid, expired
\* and holds a refresh token, a call that returns has made exactly one refresh call,
\* has started no interactive flow, and has overwritten the token file with the
\* serialization of the refreshed credential it returns (new content).
C2_ExpiredRefreshedOnceAndSaved ==
    \A p \in Procs :
        (UserPath(p) /\ LoadedRefreshable(p)) =>
            /\ flows[p] = 0
            /\ refreshes[p] <= 1
            /\ (pc[p] = "returned" =>
                   /\ refreshes[p] = 1
                   /\ writes[p] = 2
                   /\ written[p] = Document(result[p])
                   /\ written[p] # Document(loaded[p])
                   /\ result[p].token # loaded[p].token)

C2_Witness ==
    \E p \in Procs : UserPath(p) /\ LoadedRefreshable(p) /\ pc[p] = "returned"

\* C3: with use_domain_wide set, the call never tests or reads the token file, never
\* writes it, never refreshes and never starts the interactive flow, and what it
\* returns is the service-account credential, with the subject delegated_user
\* exactly when delegated_user is given (not None and not empty).
C3_DomainWideLeavesTokenFileAlone ==
    \A p \in Procs :
        ServicePath(p) =>
            /\ reads[p] = 0
            /\ writes[p] = 0
            /\ refreshes[p] = 0
            /\ flows[p] = 0
            /\ found[p] = "unknown"
            /\ written[p] = FileAbsent
            /\ (pc[p] = "returned" =>
                   /\ result[p].kind = "service"
                   /\ (result[p].subject # "none") =
                         (args[p].delegated_user \notin {"None", ""})
                   /\ (result[p].subject # "none" =>
                         result[p].subject = args[p].delegated_user))

C3_Witness ==
    \E p, q \in Procs :
        /\ ServicePath(p) /\ pc[p] = "returned" /\ result[p].subject = "user@example.com"
        /\ ServicePath(q) /\ pc[q] = "returned" /\ result[q].subject = "none"
        /\ file.st = "json" /\ file.expiry = "past"

\* the condition under which the claim says the interactive flow runs
FlowCondition(p) ==
    \/ found[p] = "absent"
    \/ /\ HasLoaded(p)
       /\ ~(loaded[p].token # 0 /\ loaded[p].expiry # "past")
       /\ ~(loaded[p].expiry = "past" /\ loaded[p].refresh_token)

\* the invocation of p is past the choice between return, refresh and flow
Decided(p) == pc[p] \in {"open", "write", "return", "returned", "raised"}

\* C4: in the branch of use_domain_wide = False the interactive flow runs exactly when
\* the token file is absent, or the cached credential is invalid and is not both
\* expired and holding a refresh token; a run makes at most one refresh call and
\* starts at most one flow, and never both.
C4_FlowExactlyWhenNoUsableCache ==
    \A p \in Procs :
        UserPath(p) =>
            /\ refreshes[p] + flows[p] <= 1
            /\ (flows[p] = 1 => FlowCondition(p))
            /\ (Decided(p) => (flows[p] = 1) = FlowCondition(p))

C4_Witness ==
    \E q \in Procs :
        /\ UserPath(q) /\ pc[q] = "returned" /\ flows[q] = 1 /\ refreshes[q] = 0
        /\ HasLoaded(q) /\ loaded[q].refresh_token

\* callers p and q raced: both took the user branch, loaded the same expired
\* credential with a refresh token, and both returned
Raced(p, q) ==
    /\ p # q
    /\ UserPath(p) /\ UserPath(q)
    /\ LoadedRefreshable(p) /\ LoadedRefreshable(q)
    /\ loaded[p] = loaded[q]
    /\ pc[p] = "returned" /\ pc[q] = "returned"

\* C9: nothing serializes the read and the write of the token file. Two invocations
\* that loaded the same expired credential have each made their own refresh call and
\* return different credentials, so at least one returns a credential that is not
\* the one on disk; and whenever no write is in progress the file holds the
\* credential of the caller that wrote last.
C9_LastWriterWins ==
    /\ (lastWriter # 0 /\ \A p \in Procs : pc[p] # "write") =>
           file = Document(creds[lastWriter])
    /\ \A p, q \in Procs :
           Raced(p, q) =>
               /\ refreshes[p] = 1 /\ refreshes[q] = 1
               /\ result[p] # result[q]
               /\ (file # Document(result[p]) \/ file # Document(result[q]))

C9_Witness ==
    \E p, q \in Procs :
        /\ Raced(p, q)
        /\ lastWriter = q
        /\ file = Document(result[q])
        /\ file # Document(result[p])
        /\ written[p] = Document(result[p])

\* the invocation of p ended with the exception of the refresh call or of the flow
AuthFailed(p) == pc[p] = "raised" /\ exc[p] \in {"refresh", "flow"}

\* C10: when the refresh call or the interactive flow raises, the call ends with that
\* exception after a single attempt (no retry, no fall back to the other flow), it
\* returns nothing, this invocation has not opened or written the token file, and
\* the failing step itself leaves the file as it is.
C10_AuthFailurePropagates ==
    /\ [](\A p \in Procs :
            AuthFailed(p) =>
                /\ refreshes[p] + flows[p] = 1
                /\ (exc[p] = "refresh") = (refreshes[p] = 1)
                /\ writes[p] = 0
                /\ written[p] = FileAbsent
                /\ result[p] = NoCreds)
    /\ [][\A p \in Procs :
            (pc[p] \in {"refresh", "flow"} /\ pc'[p] # pc[p]) =>
                /\ writes[p] = 0
                /\ (pc'[p] = "raised" => file' = file /\ exc'[p] = pc[p])
                /\ pc'[p] \in {"raised", "open"}]_vars

C10_Witness ==
    \E p \in Procs :
        /\ AuthFailed(p) /\ exc[p] = "refresh"
        /\ file = Document(loaded[p])

(***************************************************************************)
(* Properties of LanceDBGetEntity._run.                                    *)
(***************************************************************************)
\* C5: a failure of open_table, build_where_clause or the query is logged exactly
\* once and leaves _run as the same exception; nothing is returned in that case, and
\* a call that returns has met no failure and logged nothing.
C5_FailureLoggedOnceAndReraised ==
    /\ (e_exc # "none" => e_pc \in {"except", "raised"} /\ e_out = <<>>)
    /\ (e_pc = "except" => e_log = <<>>)
    /\ (e_pc = "raised" =>
           /\ e_raised \in Exceptions
           /\ e_raised = e_exc
           /\ e_log = <<[level |-> "error", exception |-> e_raised]>>
           /\ e_out = <<>>)
    /\ (e_pc = "returned" => e_exc = "none" /\ e_raised = "none" /\ e_log = <<>>)

C5_Witness == e_pc = "raised" /\ e_raised = "QueryError" /\ e_passed # <<>>

\* the blocks of the lines ls: for each `{` ... `}` the lines between the braces.
\* Lines that belong to no block make a block of their own that holds the line <<0>>.
RECURSIVE Blocks(_)
Blocks(ls) ==
    IF ls = <<>> THEN <<>>
    ELSE IF ls[1] = <<123>> /\ \E j \in 2 .. Len(ls) : ls[j] = <<125>>
    THEN LET j == CHOOSE n \in 2 .. Len(ls) :
                      ls[n] = <<125>> /\ \A m \in 2 .. n - 1 : ls[m] # <<125>>
         IN  <<SubSeq(ls, 2, j - 1)>> \o Blocks(SubSeq(ls, j + 1, Len(ls)))
    ELSE << << <<0>> >> >> \o Blocks(Tail(ls))

\* the text of a line after its indentation of four spaces
Body(line) == SubSeq(line, 5, Len(line))

\* whether a line is `    key: value`
IsFieldLine(line) ==
    /\ Len(line) >= 6
    /\ SubSeq(line, 1, 4) = <<32, 32, 32, 32>>
    /\ \E i \in 1 .. Len(Body(line)) - 1 : Body(line)[i] = 58 /\ Body(line)[i + 1] = 32

\* a field line as the pair of its key and its value: the text before and after the
\* first ": "; any other line as the pair of <<0>> and <<0>>
ParseLine(line) ==
    IF ~IsFieldLine(line) THEN << <<0>>, <<0>> >>
    ELSE LET b == Body(line)
             i == CHOOSE n \in 1 .. Len(b) - 1 :
                      /\ b[n] = 58 /\ b[n + 1] = 32
                      /\ \A m \in 1 .. n - 1 : ~(b[m] = 58 /\ b[m + 1] = 32)
         IN  <<SubSeq(b, 1, i - 1), SubSeq(b, i + 2, Len(b))>>

\* the fields a block shows, in order; a block of one line of four spaces shows none
FieldsOf(block) ==
    IF block = << <<32, 32, 32, 32>> >> THEN <<>>
    ELSE [i \in 1 .. Len(block) |-> ParseLine(block[i])]

\* the returned string, read back: its first line and the fields of its blocks
Parsed ==
    LET lines == Split(e_out, {10})
        rest == IF Len(lines) = 2 /\ lines[2] = <<>> THEN <<>> ELSE Tail(lines)
        blocks == Blocks(rest)
    IN  [header |-> lines[1], fields |-> [k \in 1 .. Len(blocks) |-> FieldsOf(blocks[k])]]

\* the decimal text of the field values
ValueText(v) == IF v = 7 THEN <<55>> ELSE <<49, 50>>

\* the fields of an entity that are to be shown
Shown(entity) == DOMAIN entity \ {KeyVector}

\* C6: in the returned string, the block of every row has no field named "vector",
\* has every other field of the row exactly once as a line `key: value`, has no
\* other line, and lists the fields in ascending order of their keys.
C6_BlocksOmitVectorAndSortKeys ==
    e_pc = "returned" =>
        LET out == Parsed
        IN  \A k \in 1 .. Len(e_results) :
                /\ k <= Len(out.fields)
                /\ LET fs == out.fields[k]
                   IN  /\ \A i \in 1 .. Len(fs) : fs[i][1] # KeyVector
                       /\ \A key \in Shown(e_results[k]) :
                             Cardinality({i \in 1 .. Len(fs) :
                                 fs[i] = <<key, ValueText(e_results[k][key])>>}) = 1
                       /\ Len(fs) = Cardinality(Shown(e_results[k]))
                       /\ \A i \in 1 .. Len(fs) - 1 : StrLess(fs[i][1], fs[i + 1][1])

C6_Witness ==
    /\ e_pc = "returned"
    /\ \E k \in 1 .. Len(e_results) :
          /\ DOMAIN e_results[k] = Keys
          /\ Len(Parsed.fields[k]) = 3

\* the pairs of key and value text of a sequence of fields
FieldSet(fs) == {fs[i] : i \in 1 .. Len(fs)}

\* C7: the returned string begins with the line `Found N entities matching <where>:`
\* where N is the number of rows the query returned and <where> the string the query
\* received, and goes on with exactly N blocks in braces and nothing else, the k-th
\* block showing the k-th row.
C7_SummaryCountsAndOrdersRows ==
    e_pc = "returned" =>
        LET out == Parsed
        IN  /\ e_passed = e_where
            /\ out.header =
                  <<70, 111, 117, 110, 100, 32>> \o <<48 + Len(e_results)>>
                      \o <<32, 101, 110, 116, 105, 116, 105, 101, 115, 32, 109, 97, 116,
                           99, 104, 105, 110, 103, 32>>
                      \o e_passed \o <<58>>
            /\ Len(out.fields) = Len(e_results)
            /\ \A k \in 1 .. Len(out.fields) :
                  FieldSet(out.fields[k]) =
                      {<<key, ValueText(e_results[k][key])>> : key \in Shown(e_results[k])}

C7_Witness ==
    /\ e_pc = "returned"
    /\ Len(e_results) = 2
    /\ Len(Parsed.fields) = 2
    /\ FieldSet(Parsed.fields[1]) # FieldSet(Parsed.fields[2])
    /\ Len(e_passed) > 6

(***************************************************************************)
(* Properties of parse_and_format_datetime.                                *)
(***************************************************************************)
\* whether an isoformat string ends in a UTC offset: +HH:MM or -HH:MM
HasOffset(s) == Len(s) = 25 /\ s[20] \in {43, 45} /\ s[23] = 58

\* C8: parse_and_format_datetime fails when the timezone name is not recognized and
\* when a datetime string is malformed; it never returns timestamps that carry no
\* timezone offset.
C8_UnknownTimezoneOrMalformedInputFails ==
    /\ (d_timezone \notin KnownZones => d_pc # "returned")
    /\ (~(strptime(d_in.start).ok /\ strptime(d_in.end).ok) => d_pc # "returned")
    /\ (d_pc = "returned" => HasOffset(d_result.start) /\ HasOffset(d_result.end))
====
